---- MODULE Spec2Model ----
(***************************************************************************)
(* Unblock for Windows (src/main.py): the GUI thread of UnblockApp and the *)
(* UnblockWorker threads it starts.                                        *)
(*                                                                         *)
(* One GUI thread runs the handlers of UnblockApp; every handler is one    *)
(* action.  Each UnblockWorker.run is a thread of its own, cut into steps  *)
(* at its reads of the shared state (self.paths, self._pause,              *)
(* self._cancel) and at the start and the return of the external action.   *)
(* Signals emitted by a worker are recorded in the worker's event log;     *)
(* finished_signal is also queued to the GUI thread, which runs            *)
(* finish_unblock when it takes it from its event queue.  The display      *)
(* widgets (progress bar, log text, list widget) hold no control state     *)
(* and are not part of the model.                                          *)
(***************************************************************************)
EXTENDS Integers, Sequences, FiniteSets, TLC

(***************************************************************************)
(* Bounds                                                                  *)
(***************************************************************************)
\* number of inputs the user gives to the main window (drops, dialogs,
\* context-menu removals, button clicks)
MaxOps == 5
\* length of the Selection
MaxSel == 2

(***************************************************************************)
(* The file system snapshot the program runs against                       *)
(***************************************************************************)
\* paths the user can select: a file, a folder holding two files, an empty
\* folder and a path that does not exist
Paths == {"a", "d", "e", "x"}

isfile(p) == p = "a"

isdir(p) == p \in {"d", "e"}

\* the files os.walk finds under p, joined to their root, in traversal order
walk(p) == IF p = "d" THEN <<"d/b", "d/c">> ELSE <<>>

\* What the external action does with a file of the snapshot: "ok" is
\* powershell exiting 0, "nonzero" is powershell exiting with an error code
\* (Unblock-File failed), "raise" is subprocess.run raising.
Outcomes(f) ==
  CASE f = "a" -> {"ok"}
    [] f = "d/b" -> {"nonzero"}
    [] OTHER -> {"raise"}

(***************************************************************************)
(* Signals                                                                 *)
(***************************************************************************)
Ev(sig, msg, file, val) == [sig |-> sig, msg |-> msg, file |-> file, val |-> val]

\* output_signal.emit(f"Processed: {file}")
Processed(f) == Ev("output_signal", "processed", f, 0)

\* error_signal.emit(f"Error: {file} -> {e}")
ErrorLine(f) == Ev("error_signal", "error", f, 0)

\* output_signal.emit("Operation cancelled.")
Cancelled == Ev("output_signal", "cancelled", "", 0)

\* output_signal.emit("No files to unblock.")
NoFiles == Ev("output_signal", "nofiles", "", 0)

\* output_signal.emit("Completed all files!")
Completed == Ev("output_signal", "completed", "", 0)

\* progress_signal.emit(percent)
Progress(v) == Ev("progress_signal", "", "", v)

\* finished_signal.emit()
Finished == Ev("finished_signal", "", "", 0)

(***************************************************************************)
(* UnblockWorker                                                           *)
(***************************************************************************)
\* a slot that holds no worker object
NoWorker ==
  [pc |-> "none", sel0 |-> <<>>, idx |-> 0, files |-> <<>>, i |-> 0,
   pause |-> FALSE, cancel |-> FALSE, invoked |-> <<>>, outcomes |-> <<>>,
   events |-> <<>>, waited |-> FALSE]

\* UnblockWorker(paths) followed by start().  self.paths is the list object
\* it is given (the GUI's selected_paths), not a copy: the worker reads the
\* variable selected_paths, and holds no list of its own.  sel0 remembers
\* what the list held at construction, for as long as the expansion lasts.
NewWorker(paths) == [NoWorker EXCEPT !.pc = "expand", !.sel0 = paths]

\* the files one selected path contributes (lines 95-100)
ExpandPath(p) ==
  IF isfile(p) THEN <<p>>
  ELSE IF isdir(p) THEN walk(p)
  ELSE <<>>

\* emit a terminal status line, emit finished_signal, return
EndRun(s, line) ==
  [s EXCEPT !.pc = "done", !.sel0 = <<>>,
            !.events = @ \o <<line, Finished>>]

\* One iteration of `for path in self.paths`, or the end of that loop with
\* the total == 0 test.  The list iterator keeps an index into the live list.
ExpandStep(s, paths) ==
  IF s.idx < Len(paths)
  THEN IF s.cancel
       THEN EndRun(s, Cancelled)
       ELSE [s EXCEPT !.idx = @ + 1,
                      !.files = @ \o ExpandPath(paths[s.idx + 1])]
  ELSE IF Len(s.files) = 0
       THEN EndRun(s, NoFiles)
       ELSE [s EXCEPT !.pc = "wait", !.sel0 = <<>>, !.i = 0]

\* PauseWait, but a run that has slept resumes one item further on
PauseWait_SkipsItem(s) ==
  IF s.pause
  THEN [s EXCEPT !.waited = TRUE]
  ELSE [s EXCEPT !.pc = "check",
                 !.i = IF s.waited /\ s.i + 1 < Len(s.files)
                       THEN s.i + 1 ELSE s.i]

\* PauseWait without the test of the flag
PauseWait_NoWait(s) == [s EXCEPT !.pc = "check"]

\* `while self._pause: self.msleep(200)`: one test of the flag
PauseWait(s) ==
  IF s.pause
  THEN [s EXCEPT !.waited = TRUE]
  ELSE [s EXCEPT !.pc = "check"]

\* CancelCheck without the test of the flag
CancelCheck_NoTest(s) ==
  [s EXCEPT !.pc = "inflight", !.invoked = Append(@, s.files[s.i + 1])]

\* `if self._cancel:` at the head of item i, then the call of subprocess.run.
\* An item begins when this test has found the flag clear.
CancelCheck(s) ==
  IF s.cancel
  THEN EndRun(s, Cancelled)
  ELSE [s EXCEPT !.pc = "inflight",
                 !.invoked = Append(@, s.files[s.i + 1])]

\* the status line of an item: the success line follows subprocess.run
\* inside the try block, whatever the exit code; the except branch emits
\* the error line
StatusLine(outcome, f) ==
  IF outcome = "raise" THEN ErrorLine(f) ELSE Processed(f)

\* Percent computed from i instead of i + 1
Percent_FromIndex(k, total) == ((k - 1) * 100) \div total

\* int((i + 1) / total * 100), k = i + 1.  The float expression and the
\* integer quotient agree for every total up to 12.
Percent(k, total) == (k * 100) \div total

\* AfterLoop without finished_signal.emit()
AfterLoop_NoFinished(s) ==
  [s EXCEPT !.pc = "done", !.events = Append(@, Completed)]

\* what follows the last item of the loop
AfterLoop(s) == EndRun(s, Completed)

\* ActionReturn with no except clause: the exception ends run()
ActionReturn_NoExcept(s, outcome) ==
  LET f == s.files[s.i + 1]
      total == Len(s.files)
      t == [s EXCEPT !.outcomes = Append(@, outcome),
                     !.events = @ \o <<StatusLine(outcome, f),
                                       Progress(Percent(s.i + 1, total))>>,
                     !.i = @ + 1]
  IN IF outcome = "raise"
     THEN [s EXCEPT !.pc = "done", !.outcomes = Append(@, outcome)]
     ELSE IF t.i < total THEN [t EXCEPT !.pc = "wait"] ELSE AfterLoop(t)

\* ActionReturn with the progress value emitted ahead of the status line
ActionReturn_ProgressFirst(s, outcome) ==
  LET f == s.files[s.i + 1]
      total == Len(s.files)
      t == [s EXCEPT !.outcomes = Append(@, outcome),
                     !.events = @ \o <<Progress(Percent(s.i + 1, total)),
                                       StatusLine(outcome, f)>>,
                     !.i = @ + 1]
  IN IF t.i < total THEN [t EXCEPT !.pc = "wait"] ELSE AfterLoop(t)

\* ActionReturn, but a cancel request made during the call aborts the item
ActionReturn_AbortOnCancel(s, outcome) ==
  LET f == s.files[s.i + 1]
      total == Len(s.files)
      t == [s EXCEPT !.outcomes = Append(@, outcome),
                     !.events = @ \o <<StatusLine(outcome, f),
                                       Progress(Percent(s.i + 1, total))>>,
                     !.i = @ + 1]
  IN IF s.cancel THEN EndRun(s, Cancelled)
     ELSE IF t.i < total THEN [t EXCEPT !.pc = "wait"] ELSE AfterLoop(t)

\* subprocess.run returns or raises for item i: status line, progress, and
\* the next iteration or the end of the loop
ActionReturn(s, outcome) ==
  LET f == s.files[s.i + 1]
      total == Len(s.files)
      t == [s EXCEPT !.outcomes = Append(@, outcome),
                     !.events = @ \o <<StatusLine(outcome, f),
                                       Progress(Percent(s.i + 1, total))>>,
                     !.i = @ + 1]
  IN IF t.i < total THEN [t EXCEPT !.pc = "wait"] ELSE AfterLoop(t)

\* QThread.isRunning()
isRunning(s) == s.pc \notin {"none", "done"}

(***************************************************************************)
(* State                                                                   *)
(***************************************************************************)
VARIABLES
  app,              \* "alive", or "crashed" once the process has aborted
  selected_paths,   \* UnblockApp.selected_paths
  worker,           \* UnblockApp.worker: 0 for None, else a slot
  paused,           \* UnblockApp.paused
  pause_text,       \* text of pause_button
  unblock_enabled,  \* unblock_button.isEnabled()
  pause_enabled,    \* pause_button.isEnabled()
  cancel_enabled,   \* cancel_button.isEnabled()
  dialog,           \* the "Are you sure you want to cancel?" box is open
  workers,          \* the UnblockWorker objects, by slot
  ops,              \* inputs the user has given so far
  pending_finished, \* finished_signal emissions queued to the GUI thread
  start_result      \* how the last start_unblock call ended

vars == <<app, selected_paths, worker, paused, pause_text, unblock_enabled,
          pause_enabled, cancel_enabled, dialog, workers, ops,
          pending_finished, start_result>>

gui == <<selected_paths, worker, paused, pause_text, unblock_enabled,
         pause_enabled, cancel_enabled, dialog, ops, start_result>>

\* Worker objects live in slots; a start takes the lowest free one.  There
\* are never more workers than user inputs.
Slots == 1..MaxOps

\* UnblockApp.__init__
Init ==
  /\ app = "alive"
  /\ selected_paths = <<>>
  /\ worker = 0
  /\ paused = FALSE
  /\ pause_text = "Pause"
  /\ unblock_enabled = FALSE
  /\ pause_enabled = FALSE
  /\ cancel_enabled = FALSE
  /\ dialog = FALSE
  /\ workers = [w \in Slots |-> NoWorker]
  /\ ops = 0
  /\ pending_finished = 0
  /\ start_result = "none"

\* the user can act on the main window
Interactive == app = "alive" /\ ~dialog /\ ops < MaxOps

InList(p, l) == \E k \in 1..Len(l) : l[k] = p

\* the loop without its `not in` test
AddAll_NoTest(l, new) == l \o new

\* `for p in new: if p not in self.selected_paths: append(p)`
RECURSIVE AddAll(_, _)
AddAll(l, new) ==
  IF new = <<>> THEN l
  ELSE AddAll(IF InList(Head(new), l) THEN l ELSE Append(l, Head(new)),
              Tail(new))

\* list.remove(path): drops the first occurrence
RECURSIVE RemoveFirst(_, _)
RemoveFirst(l, p) ==
  IF l = <<>> THEN <<>>
  ELSE IF Head(l) = p THEN Tail(l)
  ELSE <<Head(l)>> \o RemoveFirst(Tail(l), p)

\* url lists a drop can carry
DropLists == {<<p>> : p \in Paths} \cup {<<p, q>> : p \in Paths, q \in Paths}

\* what QFileDialog.getOpenFileNames can return
FileLists == {<<>>} \cup {<<p>> : p \in {q \in Paths : isfile(q)}}

\* what QFileDialog.getExistingDirectory can return ("" when dismissed)
FolderChoices == {""} \cup {p \in Paths : isdir(p)}

\* update_list() and unblock_button.setEnabled(bool(self.selected_paths))
SetSelection(l) ==
  /\ Len(l) <= MaxSel
  /\ selected_paths' = l
  /\ unblock_enabled' = (l # <<>>)
  /\ ops' = ops + 1
  /\ UNCHANGED <<app, worker, paused, pause_text, pause_enabled,
                 cancel_enabled, dialog, workers, pending_finished,
                 start_result>>

dropEvent ==
  /\ Interactive
  /\ \E urls \in DropLists : SetSelection(AddAll(selected_paths, urls))

select_files ==
  /\ Interactive
  /\ \E files \in FileLists : SetSelection(AddAll(selected_paths, files))

select_folders ==
  /\ Interactive
  /\ \E folder \in FolderChoices :
       SetSelection(IF folder # "" /\ ~InList(folder, selected_paths)
                    THEN Append(selected_paths, folder)
                    ELSE selected_paths)

\* the context menu's Remove on a row of the list widget
remove_item ==
  /\ Interactive
  /\ \E k \in 1..Len(selected_paths) :
       LET path == selected_paths[k]
       IN SetSelection(IF InList(path, selected_paths)
                       THEN RemoveFirst(selected_paths, path)
                       ELSE selected_paths)

pause_resume ==
  /\ Interactive
  /\ pause_enabled
  /\ IF worker # 0 /\ isRunning(workers[worker])
     THEN IF ~paused
          THEN /\ workers' = [workers EXCEPT ![worker].pause = TRUE]
               /\ paused' = TRUE
               /\ pause_text' = "Resume"
          ELSE /\ workers' = [workers EXCEPT ![worker].pause = FALSE]
               /\ paused' = FALSE
               /\ pause_text' = "Pause"
     ELSE UNCHANGED <<workers, paused, pause_text>>
  /\ ops' = ops + 1
  /\ UNCHANGED <<app, selected_paths, worker, unblock_enabled, pause_enabled,
                 cancel_enabled, dialog, pending_finished, start_result>>

\* cancel(), up to the message box (lines 421-427)
cancel ==
  /\ Interactive
  /\ cancel_enabled
  /\ dialog' = (worker # 0 /\ isRunning(workers[worker]))
  /\ ops' = ops + 1
  /\ UNCHANGED <<app, selected_paths, worker, paused, pause_text,
                 unblock_enabled, pause_enabled, cancel_enabled, workers,
                 pending_finished, start_result>>

\* cancel(), from the answer to the message box (lines 428-432)
cancel_reply ==
  /\ app = "alive"
  /\ dialog
  /\ dialog' = FALSE
  /\ \E yes \in BOOLEAN :
       IF yes
       THEN /\ workers' = [workers EXCEPT ![worker].cancel = TRUE]
            /\ unblock_enabled' = TRUE
            /\ pause_enabled' = FALSE
            /\ cancel_enabled' = FALSE
       ELSE UNCHANGED <<workers, unblock_enabled, pause_enabled,
                        cancel_enabled>>
  /\ UNCHANGED <<app, selected_paths, worker, paused, pause_text, ops,
                 pending_finished, start_result>>

\* self.worker = UnblockWorker(...) drops the last reference to the worker
\* the attribute held before: a worker whose run has returned is destroyed,
\* one whose run is still executing lives on.
Rebind(ws, old, new, paths) ==
  [w \in Slots |->
     IF w = new THEN NewWorker(paths)
     ELSE IF w = old /\ ~isRunning(ws[w]) THEN NoWorker
     ELSE ws[w]]

\* the slot the next worker object takes
FreeSlot(ws, old) ==
  LET free == {w \in Slots :
                 ws[w].pc = "none" \/ (w = old /\ ~isRunning(ws[w]))}
  IN CHOOSE w \in free : \A v \in free : w <= v

\* start_unblock without the test of line 438
start_unblock_NoEmptyTest ==
  /\ Interactive
  /\ unblock_enabled
  /\ start_result' = "started"
  /\ unblock_enabled' = FALSE
  /\ pause_enabled' = TRUE
  /\ cancel_enabled' = TRUE
  /\ worker' = FreeSlot(workers, worker)
  /\ workers' = Rebind(workers, worker, FreeSlot(workers, worker),
                      selected_paths)
  /\ ops' = ops + 1
  /\ UNCHANGED <<app, selected_paths, paused, pause_text, dialog,
                 pending_finished>>

start_unblock ==
  /\ Interactive
  /\ unblock_enabled
  /\ IF selected_paths = <<>>
     THEN /\ start_result' = "returned"
          /\ UNCHANGED <<unblock_enabled, pause_enabled, cancel_enabled,
                         worker, workers>>
     ELSE /\ start_result' = "started"
          /\ unblock_enabled' = FALSE
          /\ pause_enabled' = TRUE
          /\ cancel_enabled' = TRUE
          /\ worker' = FreeSlot(workers, worker)
          /\ workers' = Rebind(workers, worker, FreeSlot(workers, worker),
                              selected_paths)
  /\ ops' = ops + 1
  /\ UNCHANGED <<app, selected_paths, paused, pause_text, dialog,
                 pending_finished>>

\* the GUI thread takes a queued finished_signal: finish_unblock
finish_unblock ==
  /\ app = "alive"
  /\ pending_finished > 0
  /\ pending_finished' = pending_finished - 1
  /\ unblock_enabled' = TRUE
  /\ pause_enabled' = FALSE
  /\ cancel_enabled' = FALSE
  /\ paused' = FALSE
  /\ pause_text' = "Pause"
  /\ UNCHANGED <<app, selected_paths, worker, dialog, workers, ops,
                 start_result>>

\* a step of worker w leaves it in state t
WorkerMoves(w, t) ==
  /\ workers' = [workers EXCEPT ![w] = t]
  /\ pending_finished' =
       pending_finished + (IF t.pc = "done" THEN 1 ELSE 0)
  /\ UNCHANGED <<app, gui>>

run_expand(w) ==
  /\ app = "alive"
  /\ workers[w].pc = "expand"
  /\ WorkerMoves(w, ExpandStep(workers[w], selected_paths))

run_pause_wait(w) ==
  /\ app = "alive"
  /\ workers[w].pc = "wait"
  /\ WorkerMoves(w, PauseWait(workers[w]))

run_cancel_check(w) ==
  /\ app = "alive"
  /\ workers[w].pc = "check"
  /\ WorkerMoves(w, CancelCheck(workers[w]))

run_action_return(w) ==
  /\ app = "alive"
  /\ workers[w].pc = "inflight"
  /\ \E o \in Outcomes(workers[w].files[workers[w].i + 1]) :
       WorkerMoves(w, ActionReturn(workers[w], o))

\* a worker the GUI no longer references while its run executes
Orphan(w) == w # worker /\ isRunning(workers[w])

\* Destroying a QThread that is still running aborts the process.  Whether
\* and when the orphaned object is destroyed depends on thread timing.
Crash ==
  /\ app = "alive"
  /\ \E w \in Slots : Orphan(w)
  /\ app' = "crashed"
  /\ selected_paths' = <<>>
  /\ worker' = 0
  /\ paused' = FALSE
  /\ pause_text' = "Pause"
  /\ unblock_enabled' = FALSE
  /\ pause_enabled' = FALSE
  /\ cancel_enabled' = FALSE
  /\ dialog' = FALSE
  /\ workers' = [w \in Slots |-> NoWorker]
  /\ ops' = 0
  /\ pending_finished' = 0
  /\ start_result' = "none"

WorkerStep(w) ==
  \/ run_expand(w)
  \/ run_pause_wait(w)
  \/ run_cancel_check(w)
  \/ run_action_return(w)

Next ==
  \/ dropEvent
  \/ select_files
  \/ select_folders
  \/ remove_item
  \/ pause_resume
  \/ cancel
  \/ cancel_reply
  \/ start_unblock
  \/ finish_unblock
  \/ \E w \in Slots : run_expand(w)
  \/ \E w \in Slots : run_pause_wait(w)
  \/ \E w \in Slots : run_cancel_check(w)
  \/ \E w \in Slots : run_action_return(w)
  \/ Crash

Spec == Init /\ [][Next]_vars

\* The operating system schedules every worker thread, and the GUI event
\* loop delivers queued signals; the user is under no obligation to act.
FairSpec ==
  /\ Spec
  /\ \A w \in Slots : WF_vars(WorkerStep(w))
  /\ WF_vars(finish_unblock)

(***************************************************************************)
(* Reading a worker's event log                                            *)
(***************************************************************************)
IsStatus(e) == e.sig \in {"output_signal", "error_signal"}

IsFileLine(e) == e.msg \in {"processed", "error"}

IsTerminalLine(e) == e.msg \in {"cancelled", "nofiles", "completed"}

IsProgress(e) == e.sig = "progress_signal"

IsFinished(e) == e.sig = "finished_signal"

\* every line the run wrote to the log, in order
StatusLines(s) == SelectSeq(s.events, IsStatus)

\* the per-file lines
FileLines(s) == SelectSeq(s.events, IsFileLine)

\* the progress events
ProgressEvents(s) == SelectSeq(s.events, IsProgress)

Last(q) == q[Len(q)]

\* the last line the run wrote to the log
LastStatus(s) == Last(StatusLines(s))

\* the run of s ended with the completion notice
EndedCompleted(s) ==
  s.pc = "done" /\ StatusLines(s) # <<>> /\ LastStatus(s) = Completed

Running == {w \in Slots : isRunning(workers[w])}

(***************************************************************************)
(* Claims                                                                  *)
(***************************************************************************)

C2_CancelEndsPausedRun ==
  \A w \in Slots :
    (workers[w].pc = "wait" /\ workers[w].pause /\ workers[w].cancel)
      ~> (workers[w].pc = "done" \/ app = "crashed" \/ ops = MaxOps)

\* C3: an item whose action failed (non-zero exit or exception) gets the
\* error line for its path, and the success line is only given to an item
\* whose action succeeded.
C3_FailureGivesErrorLine ==
  \A w \in Slots :
    \A k \in 1..Len(workers[w].outcomes) :
      LET line == FileLines(workers[w])[k]
      IN /\ workers[w].outcomes[k] # "ok" =>
              line = ErrorLine(workers[w].files[k])
         /\ line.msg = "processed" => workers[w].outcomes[k] = "ok"

\* round(k / total * 100), to the nearest integer
Rounded(k, total) == (200 * k + total) \div (2 * total)

\* C4: the k-th progress value of a run over N files is round(k / N * 100).
C4_ProgressIsRounded ==
  \A w \in Slots :
    \A k \in 1..Len(ProgressEvents(workers[w])) :
      ProgressEvents(workers[w])[k].val = Rounded(k, Len(workers[w].files))

\* C5: a run over N >= 1 files that ends with the completion notice has
\* emitted progress N times, one value right after each item's status line
\* (success or error), every value in 0..100, never decreasing, the last 100.
C5_ProgressOfCompletedRun ==
  \A w \in Slots :
    EndedCompleted(workers[w]) =>
      LET s == workers[w]
          n == Len(s.files)
          pr == ProgressEvents(s)
      IN /\ n >= 1
         /\ Len(pr) = n
         /\ \A k \in 1..n :
              /\ IsFileLine(s.events[2 * k - 1])
              /\ s.events[2 * k - 1].file = s.files[k]
              /\ s.events[2 * k] = pr[k]
              /\ pr[k].val \in 0..100
              /\ k > 1 => pr[k - 1].val <= pr[k].val
         /\ pr[n].val = 100

\* a completed run over three files, one of which got the error line
C5_Witness ==
  \E w \in Slots :
    /\ EndedCompleted(workers[w])
    /\ Len(workers[w].files) = 3
    /\ \E k \in 1..3 : FileLines(workers[w])[k].msg = "error"
    /\ \E k \in 1..3 : FileLines(workers[w])[k].msg = "processed"

\* C6: at most one worker is running and at most one external action is in
\* flight.
C6_OneWorker ==
  /\ Cardinality(Running) <= 1
  /\ Cardinality({w \in Slots : workers[w].pc = "inflight"}) <= 1

\* C7: an action that fails ends nothing.  When the action of item k
\* returns or raises, the worker goes on to the head of the loop for item
\* k+1, or past the loop if k was the last; and a run with a failed item
\* that has ended with cancel never requested has invoked every item of
\* the list exactly once, in order, and its log ends with the completion
\* notice followed by the finished signal.
C7_FailureDoesNotEndRun ==
  /\ [](\A w \in Slots :
          LET s == workers[w]
              n == Len(s.events)
          IN (/\ s.pc = "done"
              /\ ~s.cancel
              /\ \E k \in 1..Len(s.outcomes) : s.outcomes[k] # "ok") =>
               /\ s.invoked = s.files
               /\ Len(s.outcomes) = Len(s.files)
               /\ n >= 2
               /\ s.events[n - 1] = Completed
               /\ s.events[n] = Finished)
  /\ [][\A w \in Slots :
          LET s == workers[w]
              t == workers'[w]
          IN (s.pc = "inflight" /\ t.pc # "inflight" /\ app' = "alive") =>
               IF s.i + 1 < Len(s.files)
               THEN t.pc = "wait" /\ t.i = s.i + 1 /\ t.files = s.files
               ELSE EndedCompleted(t)]_vars

\* a run that ended although its first item failed and two more followed
C7_Witness ==
  \E w \in Slots :
    /\ workers[w].pc = "done"
    /\ ~workers[w].cancel
    /\ Len(workers[w].files) = 3
    /\ Len(workers[w].outcomes) = 3
    /\ workers[w].outcomes[1] # "ok"

\* C8: whatever pauses and resumes happen, the actions a run has invoked
\* are the items of its list from the first on, each once and in order, and
\* a run that ends without cancel has invoked the whole list.
C8_PauseKeepsOrder ==
  \A w \in Slots :
    LET s == workers[w]
    IN /\ Len(s.invoked) <= Len(s.files)
       /\ s.invoked = SubSeq(s.files, 1, Len(s.invoked))
       /\ Len(s.invoked) = s.i + (IF s.pc = "inflight" THEN 1 ELSE 0)
       /\ (s.pc = "done" /\ ~s.cancel) => s.invoked = s.files

\* a run over three files that slept in the pause wait and was resumed, and
\* has ended with the completion notice
C8_Witness ==
  \E w \in Slots :
    /\ workers[w].waited
    /\ ~workers[w].pause
    /\ EndedCompleted(workers[w])
    /\ Len(workers[w].files) = 3

\* C9: a Start on a Selection that is empty, or that expands to no file,
\* gives a run that invokes no action, emits no progress, reports
\* "No files to unblock." and then emits the finished signal.
C9_NoFilesReported ==
  /\ start_result # "returned"
  /\ \A w \in Slots :
       (workers[w].pc = "done" /\ workers[w].files = <<>>
          /\ ~workers[w].cancel) =>
         /\ workers[w].events = <<NoFiles, Finished>>
         /\ workers[w].invoked = <<>>

\* C10: a run that has ended wrote exactly one terminal status line and,
\* right after it, exactly one finished signal, both at the end of its log;
\* a run that has not ended has emitted neither; and an ended run invokes
\* and emits nothing more.
C10_TerminalOnce ==
  /\ [](\A w \in Slots :
          LET s == workers[w]
              n == Len(s.events)
          IN /\ Len(SelectSeq(s.events, IsFinished))
                  = (IF s.pc = "done" THEN 1 ELSE 0)
             /\ Len(SelectSeq(s.events, IsTerminalLine))
                  = (IF s.pc = "done" THEN 1 ELSE 0)
             /\ s.pc = "done" =>
                  /\ n >= 2
                  /\ IsTerminalLine(s.events[n - 1])
                  /\ s.events[n] = Finished)
  /\ [][\A w \in Slots :
          (workers[w].pc = "done" /\ workers'[w].pc = "done") =>
            /\ workers'[w].events = workers[w].events
            /\ workers'[w].invoked = workers[w].invoked
            /\ workers'[w].outcomes = workers[w].outcomes]_vars

\* a run that processed items and ended, its finished signal already
\* taken by the GUI thread, while the user went on using the window
C10_Witness ==
  \E w \in Slots :
    /\ workers[w].pc = "done"
    /\ Len(workers[w].events) > 2
    /\ pending_finished = 0
    /\ selected_paths = <<>>


\* What one selected path adds to the Work Item List according to the
\* specification: a file itself, a directory the files of its recursive
\* walk, anything else nothing.
Contribution(p) ==
  IF isfile(p) THEN <<p>> ELSE IF isdir(p) THEN walk(p) ELSE <<>>

RECURSIVE Concatenation(_)
Concatenation(paths) ==
  IF paths = <<>> THEN <<>>
  ELSE Contribution(Head(paths)) \o Concatenation(Tail(paths))

\* The worker w leaves the expansion loop in this step because the loop has
\* run off the end of its list (not because it was cancelled).
ExpansionEnds(w) ==
  /\ app' = "alive"
  /\ workers[w].pc = "expand"
  /\ workers'[w].pc # "expand"
  /\ workers[w].idx >= Len(selected_paths)

\* C11: when the expansion of a run ends, the Work Item List is the
\* concatenation, in Selection order, of the contributions of the selected
\* paths (the Selection taken as it was at Start, or as it is at that
\* moment), and the expansion has emitted no status or error event.
C11_ListIsConcatenation ==
  [][\A w \in Slots :
       ExpansionEnds(w) =>
         /\ \/ workers'[w].files = Concatenation(workers[w].sel0)
            \/ workers'[w].files = Concatenation(selected_paths)
         /\ workers[w].events = <<>>]_vars


NoDuplicates(l) == \A j, k \in 1..Len(l) : l[j] = l[k] => j = k

IsPrefix(l, m) == Len(l) <= Len(m) /\ SubSeq(m, 1, Len(l)) = l

DeletesOne(l, m) ==
  \E k \in 1..Len(l) : m = SubSeq(l, 1, k - 1) \o SubSeq(l, k + 1, Len(l))

C13_EmptyVersusNoFiles ==
  /\ [][start_unblock =>
          IF selected_paths = <<>>
          THEN /\ start_result' = "returned"
               /\ workers' = workers
               /\ worker' = worker
               /\ pending_finished' = pending_finished
          ELSE /\ start_result' = "started"
               /\ workers'[worker'] = NewWorker(selected_paths)
               /\ workers'[worker'] # workers[worker']]_vars
  /\ [][\A w \in Slots :
          ExpansionEnds(w) /\ workers'[w].files = <<>> =>
            /\ workers'[w].events = <<NoFiles, Finished>>
            /\ pending_finished' = pending_finished + 1]_vars

\* a run over a Selection without files has reported "No files to unblock.",
\* and a later Start with the Selection emptied has returned silently
C13_Witness ==
  /\ start_result = "returned"
  /\ selected_paths = <<>>
  /\ \E w \in Slots : /\ workers[w].pc = "done"
                      /\ workers[w].events = <<NoFiles, Finished>>


\* the events item k of worker record t has produced: its status line, then
\* its progress value
ItemReported(t, k) ==
  /\ Len(t.events) >= 2 * k
  /\ IsFileLine(t.events[2 * k - 1])
  /\ t.events[2 * k - 1].file = t.files[k]
  /\ IsProgress(t.events[2 * k])

C15_PauseInFlight ==
  /\ [][\A w \in Slots :
          LET s == workers[w]
              t == workers'[w]
              N == Len(s.files)
          IN app' = "alive" =>
               /\ (s.pc = "inflight" /\ s.pause) =>
                    \/ /\ t.pc = "inflight"
                       /\ <<t.i, t.events, t.invoked>>
                            = <<s.i, s.events, s.invoked>>
                    \/ /\ t.i = s.i + 1
                       /\ t.invoked = s.invoked
                       /\ SubSeq(t.events, 1, Len(s.events)) = s.events
                       /\ ItemReported(t, s.i + 1)
                       /\ t.pause
                       /\ IF s.i + 1 < N THEN t.pc = "wait"
                                         ELSE EndedCompleted(t)
               /\ (s.pc = "wait" /\ s.pause) =>
                    /\ t.pc = "wait"
                    /\ <<t.i, t.events, t.invoked>>
                         = <<s.i, s.events, s.invoked>>
               /\ (s.pc = "wait" /\ ~s.pause /\ t.pc # "wait") =>
                    /\ t.pc = "check"
                    /\ <<t.i, t.events, t.invoked>>
                         = <<s.i, s.events, s.invoked>>
               /\ (s.pc = "check" /\ ~s.cancel /\ t.pc # "check") =>
                    /\ t.pc = "inflight"
                    /\ t.i = s.i
                    /\ t.invoked = Append(s.invoked, s.files[s.i + 1])]_vars
  /\ [](\A w \in Slots :
          (/\ app = "alive"
           /\ ~workers[w].pause
           /\ ~workers[w].cancel
           /\ workers[w].pc \in {"wait", "check", "inflight"})
            => ENABLED <<WorkerStep(w)>>_vars)

\* a run that has slept in the pause wait, has been resumed, and has then
\* invoked the action of its second item
C15_Witness ==
  \E w \in Slots :
    /\ workers[w].waited
    /\ ~workers[w].pause
    /\ workers[w].pc = "inflight"
    /\ workers[w].i = 1
    /\ workers[w].invoked = SubSeq(workers[w].files, 1, 2)


\* C16: a run that finds the cancel flag set when it begins its expansion
\* (no path read yet) invokes no action and ends with the cancellation
\* notice followed by the finished signal, whatever the Selection holds.
C16_CancelBeforeExpansion ==
  [][\A w \in Slots :
       LET s == workers[w]
           t == workers'[w]
       IN (/\ app' = "alive"
           /\ s.pc = "expand" /\ s.idx = 0 /\ s.cancel
           /\ (t.pc # "expand" \/ t.idx # 0)) =>
            /\ t.pc = "done"
            /\ t.invoked = <<>>
            /\ t.events = <<Cancelled, Finished>>]_vars


\* C17: every processed item has exactly one per-file status line (success
\* or error), placed right before that item's progress value, and the
\* per-file lines follow the order of the Work Item List; a run that ends
\* with the completion notice over N items has emitted N per-file lines and
\* then one completion line, and no other status line.
C17_OneLinePerItem ==
  \A w \in Slots :
    LET s == workers[w]
        N == Len(s.files)
    IN /\ Len(FileLines(s)) = Len(s.outcomes)
       /\ Len(s.outcomes) = s.i
       /\ \A k \in 1..s.i :
            /\ ItemReported(s, k)
            /\ FileLines(s)[k] = s.events[2 * k - 1]
       /\ \A k \in 1..Len(s.events) :
            IsFileLine(s.events[k]) => k <= 2 * s.i /\ k % 2 = 1
       /\ EndedCompleted(s) =>
            /\ s.i = N
            /\ Len(StatusLines(s)) = N + 1
            /\ SubSeq(StatusLines(s), 1, N) = FileLines(s)
            /\ \A k \in 1..N : FileLines(s)[k].file = s.files[k]

\* a completed run over three files, with success and error lines
C17_Witness ==
  \E w \in Slots :
    /\ EndedCompleted(workers[w])
    /\ Len(workers[w].files) = 3
    /\ \E k \in 1..3 : FileLines(workers[w])[k].msg = "error"
    /\ \E k \in 1..3 : FileLines(workers[w])[k].msg = "processed"


C19_PathsFixedAtStart ==
  [][\A w \in Slots :
       ExpansionEnds(w) =>
         workers'[w].files = Concatenation(workers[w].sel0)]_vars

\* C20: while the worker the GUI refers to is running, the GUI's paused flag
\* equals that worker's pause flag, and the Pause/Resume button reads
\* "Resume" exactly when it is set; a run that has just been started has the
\* GUI's paused flag false.
C20_PausedFlagInSync ==
  (worker # 0 /\ isRunning(workers[worker])) =>
    /\ paused = workers[worker].pause
    /\ (pause_text = "Resume") = paused


\* C21: the controls reflect the run state.  While the worker the GUI
\* refers to is running and cancel has not been confirmed for it, Start is
\* disabled and Pause and Cancel are enabled; and when finish_unblock puts
\* the controls back to idle, no worker is running any more.
C21_ControlsReflectRun ==
  /\ [](\/ app # "alive"
        \/ worker = 0
        \/ ~isRunning(workers[worker])
        \/ workers[worker].cancel
        \/ (~unblock_enabled /\ pause_enabled /\ cancel_enabled))
  /\ [][finish_unblock => Running = {}]_vars


====
